---- MODULE Spec2Model ----
(***************************************************************************)
(* The wallet's local credential store and migration engine                *)
(* (src/src/storage.js, class LocalStorageStore).                          *)
(*                                                                         *)
(* State: the browser localStorage (flat keys), the per-wallet LevelDB     *)
(* databases behind the wallet-lib Storage facade, the cached facade       *)
(* handle this._storage, and the wallet-lib's process-wide network.        *)
(***************************************************************************)
EXTENDS Integers, Sequences, FiniteSets, TLC

\* ---------------------------------------------------------------- bounds
NumPins == 2          \* PINs are 1..NumPins
NumPasswords == 1     \* passwords are 1..NumPasswords
NumSeeds == 2         \* valid seeds (and the xpubs they derive) are 1..NumSeeds
MaxTokens == 2        \* longest legacy 'wallet:tokens' list
NumUrls == 2          \* server URLs are 1..NumUrls
NumNames == 2         \* network names, signature maps: 1..NumNames
NumVersions == 1      \* Ledger app versions: 1..NumVersions
MaxInFlight == 1      \* async calls in flight together: 1..MaxInFlight
NumCalls == 2         \* overlapping handleDataMigration calls: 1..NumCalls
MaxSettings == 1      \* settings kept at once in the wallet's life with all its setters

Pins == 1..NumPins
Passwords == 1..NumPasswords
Xpubs == 1..NumSeeds
\* seed 0 stands for a seed phrase the key derivation rejects
Seeds == 0..NumSeeds
Urls == 1..NumUrls

\* ------------------------------------------------------------- JS values
\* Every JavaScript value is a record with its own payload field, so that
\* values of different JavaScript types are comparable (and different).
Null == [t |-> "null"]
Undefined == [t |-> "undefined"]
Bool(b) == [t |-> "bool", b |-> b]
Num(n) == [t |-> "num", n |-> n]
\* a string is a sequence of tokens; <<>> is the empty string
Str(s) == [t |-> "str", s |-> s]
Obj(o) == [t |-> "obj", o |-> o]
Arr(a) == [t |-> "arr", a |-> a]

\* JavaScript truthiness (the tests `!x`, `x || d`, `if (x)`)
Truthy(v) ==
  CASE v.t = "null" -> FALSE
    [] v.t = "undefined" -> FALSE
    [] v.t = "bool" -> v.b
    [] v.t = "num" -> v.n # 0
    [] v.t = "str" -> v.s # <<>>
    [] OTHER -> TRUE

\* ------------------------------------------------------------------ keys
\* A key is <<prefix, rest>>: 'wallet:id' is <<"wallet", "id">>.
WALLET_ID_KEY == <<"wallet", "id">>
ACCESS_DATA_KEY == <<"wallet", "accessData">>
OLD_TOKENS_KEY == <<"wallet", "tokens">>
OLD_BACKUP_KEY == <<"wallet", "backup">>
OLD_DATA_KEY == <<"wallet", "data">>

WALLET_VERSION_KEY == <<"localstorage", "version">>
STORE_VERSION_KEY == <<"localstorage", "storeversion">>
LEDGER_APP_VERSION_KEY == <<"localstorage", "ledger:version">>
LOCKED_KEY == <<"localstorage", "lock">>
CLOSED_KEY == <<"localstorage", "closed">>
STARTED_KEY == <<"localstorage", "started">>
NETWORK_KEY == <<"localstorage", "network">>
IS_HARDWARE_KEY == <<"localstorage", "ishardware">>
TOKEN_SIGNATURES_KEY == <<"localstorage", "token:signatures">>
IS_BACKUP_DONE_KEY == <<"localstorage", "backup">>
SERVER_KEY == <<"localstorage", "server">>
WS_SERVER_KEY == <<"localstorage", "wsserver">>

storageKeys ==
  << WALLET_VERSION_KEY, STORE_VERSION_KEY, LOCKED_KEY, CLOSED_KEY,
     STARTED_KEY, NETWORK_KEY, IS_HARDWARE_KEY, TOKEN_SIGNATURES_KEY,
     IS_BACKUP_DONE_KEY, SERVER_KEY, WS_SERVER_KEY >>

LegacyKeys == {ACCESS_DATA_KEY, OLD_TOKENS_KEY, OLD_BACKUP_KEY, OLD_DATA_KEY}

Keys ==
  {WALLET_ID_KEY, LEDGER_APP_VERSION_KEY} \cup LegacyKeys
    \cup {storageKeys[i] : i \in 1..Len(storageKeys)}

\* --------------------------------------------------------- localStorage
\* What localStorage holds under a key: nothing, or a text.  A text is either
\* valid JSON, kept as the value it encodes, or it is not, and is kept as the
\* string it is (what old versions of the wallet saved without encoding).
NoItem == [k |-> "none"]
JSONstringify(v) == [k |-> "json", v |-> v]
\* a text that is not valid JSON: the string s as it stands
RawText(s) == [k |-> "raw", s |-> s]
\* JSON.parse(item) throws a SyntaxError
SyntaxError(item) == item.k = "raw"
\* localStorage.getItem gives null for a missing key and JSON.parse(null) is
\* null; of a text that is not valid JSON there is no value
JSONparse(text) ==
  CASE text.k = "json" -> text.v
    [] text.k = "none" -> Null

\* The store object: w.ls localStorage, w.db the LevelDB databases by name,
\* w.storage the cached handle this._storage, w.net the wallet-lib network.
\* setItem(key, value); JSON.stringify(undefined) is undefined, which
\* localStorage keeps as the text `undefined`
setItem(w, key, value) ==
  [w EXCEPT !.ls[key] =
     IF value = Undefined THEN RawText(<<"undefined">>) ELSE JSONstringify(value)]

\* what getItem(key) returns: the parsed value, or the text itself when it
\* is not valid JSON
getItem(w, key) ==
  LET item == w.ls[key]
  IN IF SyntaxError(item) THEN Str(item.s) ELSE JSONparse(item)

\* a getItem that returns the text and does not save it
getItemSaves_Nothing(w, key) == w

\* what getItem(key) leaves: a text that is not valid JSON is saved again,
\* JSON encoded.  The handlers below read keys that hold JSON (NoRawText),
\* for which getItem leaves the store as it is.
getItemSaves(w, key) ==
  LET item == w.ls[key]
  IN IF SyntaxError(item) THEN setItem(w, key, Str(item.s)) ELSE w

removeItem(w, key) == [w EXCEPT !.ls[key] = NoItem]

clear(w) == [w EXCEPT !.ls = [key \in Keys |-> NoItem]]

getWalletId(w) == getItem(w, WALLET_ID_KEY)

isLoadedSync(w) ==
  Truthy(getWalletId(w)) \/ Truthy(getItem(w, ACCESS_DATA_KEY))

setWalletId(w, walletId) == setItem(w, WALLET_ID_KEY, walletId)

\* ------------------------------------------------- settings and flags
setHardwareWallet(w, value) == setItem(w, IS_HARDWARE_KEY, value)

isHardwareWallet(w) ==
  IF Truthy(getItem(w, IS_HARDWARE_KEY))
    THEN getItem(w, IS_HARDWARE_KEY) ELSE Bool(FALSE)

\* this.version
version == 1

\* a getStorageVersion that reads the wallet's version key
getStorageVersion_WalletVersionKey(w) == getItem(w, WALLET_VERSION_KEY)

getStorageVersion(w) == getItem(w, STORE_VERSION_KEY)

updateStorageVersion(w) == setItem(w, STORE_VERSION_KEY, Num(version))

markBackupDone(w) == setItem(w, IS_BACKUP_DONE_KEY, Bool(TRUE))

markBackupAsNotDone(w) == removeItem(w, IS_BACKUP_DONE_KEY)

isBackupDone(w) == Bool(Truthy(getItem(w, IS_BACKUP_DONE_KEY)))

lock(w) == setItem(w, LOCKED_KEY, Bool(TRUE))

unlock(w) == setItem(w, LOCKED_KEY, Bool(FALSE))

\* an isLocked written with || for ??
isLocked_OrTrue(w) ==
  IF Truthy(getItem(w, LOCKED_KEY)) THEN getItem(w, LOCKED_KEY) ELSE Bool(TRUE)

\* this.getItem(LOCKED_KEY) ?? true
isLocked(w) ==
  IF getItem(w, LOCKED_KEY) \in {Null, Undefined}
    THEN Bool(TRUE) ELSE getItem(w, LOCKED_KEY)

\* setServers(serverURL, wsServerURL)
setServers(w, serverURL, wsServerURL) ==
  LET w1 == setItem(w, SERVER_KEY, serverURL)
  IN IF Truthy(wsServerURL) THEN setItem(w1, WS_SERVER_KEY, serverURL) ELSE w1

getServer(w) == getItem(w, SERVER_KEY)

getWsServer(w) == getItem(w, WS_SERVER_KEY)

close(w) == setItem(w, CLOSED_KEY, Bool(TRUE))

\* this.getItem(CLOSED_KEY) || false
wasClosed(w) ==
  IF Truthy(getItem(w, CLOSED_KEY)) THEN getItem(w, CLOSED_KEY) ELSE Bool(FALSE)

open(w) == setItem(w, CLOSED_KEY, Bool(FALSE))

markWalletAsStarted(w) == setItem(w, STARTED_KEY, Bool(TRUE))

\* VERSION of ./constants, the version of the package
VERSION == Str(<<"0.27.0">>)

\* a setWalletVersion that writes under the key of the storage version
setWalletVersion_StoreVersionKey(w) == setItem(w, STORE_VERSION_KEY, VERSION)

setWalletVersion(w) == setItem(w, WALLET_VERSION_KEY, VERSION)

\* setNetwork(networkName): the key, then the wallet-lib's network.setNetwork
setNetwork(w, networkName) ==
  [setItem(w, NETWORK_KEY, networkName) EXCEPT !.net = networkName]

getNetwork(w) == getItem(w, NETWORK_KEY)

\* this.getItem(TOKEN_SIGNATURES_KEY) || {}
getTokenSignatures(w) ==
  IF Truthy(getItem(w, TOKEN_SIGNATURES_KEY))
    THEN getItem(w, TOKEN_SIGNATURES_KEY) ELSE Obj(<<>>)

setTokenSignatures(w, data) == setItem(w, TOKEN_SIGNATURES_KEY, data)

resetTokenSignatures(w) == removeItem(w, TOKEN_SIGNATURES_KEY)

saveLedgerAppVersion(w, ledgerVersion) ==
  setItem(w, LEDGER_APP_VERSION_KEY, ledgerVersion)

getLedgerAppVersion(w) == getItem(w, LEDGER_APP_VERSION_KEY)

\* ------------------------------------------------ cryptographic capability
\* A ciphertext string records the plaintext and the key that encrypted it.
AESencrypt(plain, key) == [ct |-> "aes", plain |-> plain, key |-> key]

\* What CryptoJS.AES.decrypt(ct, key).toString(CryptoJS.enc.Utf8) can return
\* under a key that is not the ciphertext's: bytes that happen to decode.
Garbage == Str(<<"garbage">>)

\* CryptoJS.AES.decrypt(...).toString(Utf8): the plaintext under the right key;
\* under another key the bytes are arbitrary, and either fail to decode as
\* UTF-8 (the call throws) or decode to some other string.  `wrongKey` is
\* that outcome, "throw" or "garbage".
AESdecrypt(ct, key, wrongKey) ==
  IF ct.key = key THEN [threw |-> FALSE, str |-> ct.plain]
  ELSE IF wrongKey = "throw" THEN [threw |-> TRUE, str |-> Undefined]
  ELSE [threw |-> FALSE, str |-> Garbage]

\* the PBKDF2 hash of a password under a salt
hashData(password, salt) == [pbkdf2 |-> password, salt |-> salt]

\* cryptoUtils.encryptData(data, password): an EncryptedSecret
encryptData(data, password) ==
  [ data |-> AESencrypt(data, password),
    hash |-> hashData(password, "salt"),
    salt |-> "salt",
    iterations |-> "iterations",
    pbkdf2Hasher |-> "sha1" ]

\* cryptoUtils.checkPassword(data, password)
checkPassword(data, password) == data.hash = hashData(password, data.salt)

\* the secrets of the wallet of an extended public key
SecretOf(kind, xpub) == Str(<<kind, xpub>>)

\* walletUtils.getWalletIdFromXPub(xpubkey): a hash of the key, as a string
getWalletIdFromXPub(xpubkey) == Str(<<"walletid", xpubkey>>)

WalletIds == {getWalletIdFromXPub(x) : x \in Xpubs}

P2PKH == "p2pkh"

\* walletUtils.generateAccessDataFromSeed(seed, {pin, password, ...}); the
\* seed (with its passphrase) fixes the extended public key
generateAccessDataFromSeed(seed, pin, password) ==
  [ walletType |-> P2PKH,
    walletFlags |-> 0,
    xpubkey |-> seed,
    acctPathKey |-> encryptData(SecretOf("acctPathKey", seed), pin),
    authKey |-> encryptData(SecretOf("authKey", seed), pin),
    words |-> encryptData(SecretOf("words", seed), password),
    mainKey |-> encryptData(SecretOf("mainKey", seed), pin) ]

\* WALLET_FLAGS.READONLY | WALLET_FLAGS.HARDWARE
HARDWARE_FLAGS == 3

\* a generateAccessDataFromXpub without the hardware option
generateAccessDataFromXpub_Software(xpub) ==
  [ walletType |-> P2PKH,
    walletFlags |-> 1,
    xpubkey |-> xpub ]

\* walletUtils.generateAccessDataFromXpub(xpub, {hardware: true}): no secret
\* of any kind, only the public key
generateAccessDataFromXpub(xpub) ==
  [ walletType |-> P2PKH,
    walletFlags |-> HARDWARE_FLAGS,
    xpubkey |-> xpub ]

\* The pre-1.0 record under 'wallet:accessData' of a wallet whose PIN is
\* `pin` and password `password`; acctPathMainKey and authKey are optional.
LegacyAccessData(xpub, pin, password, hasAcct, hasAuth) ==
  [ xpubkey |-> xpub,
    words |-> AESencrypt(SecretOf("words", xpub), password),
    hashPasswd |-> hashData(password, "saltPasswd"),
    saltPasswd |-> "saltPasswd",
    mainKey |-> AESencrypt(SecretOf("mainKey", xpub), pin),
    hash |-> hashData(pin, "salt"),
    salt |-> "salt",
    hashIterations |-> "iterations",
    pbkdf2Hasher |-> "sha1",
    acctPathMainKey |->
      IF hasAcct THEN AESencrypt(SecretOf("acctPathKey", xpub), pin) ELSE Undefined,
    authKey |->
      IF hasAuth THEN AESencrypt(SecretOf("authKey", xpub), pin) ELSE Undefined ]

\* a property read `object.name` of JavaScript: undefined when there is none
Field(object, name) ==
  IF name \in DOMAIN object THEN object[name] ELSE Undefined

\* a ciphertext string is truthy; undefined is not
Present(x) == "t" \notin DOMAIN x \/ Truthy(x)

\* ------------------------------------------------ structured storage facade
\* One LevelDB database per wallet id: its access data and token registry.
EmptyDB == [accessData |-> Null, tokens |-> {}]

\* new Storage(new LevelDBStore(walletId))
NewStorage(walletId) == [dbname |-> walletId]

saveAccessData(w, storage, accessData) ==
  [w EXCEPT !.db[storage.dbname].accessData = accessData]

getAccessData(w, storage) == w.db[storage.dbname].accessData

\* a registerToken that keeps a second entry for a token registered again
registerToken_Again(w, storage, token) ==
  [w EXCEPT !.db[storage.dbname].tokens =
     IF token \in @ THEN @ \cup {token + MaxTokens} ELSE @ \cup {token}]

registerToken(w, storage, token) ==
  [w EXCEPT !.db[storage.dbname].tokens = @ \cup {token}]

\* getStorage(): the cached handle, built on first use from 'wallet:id'
getStorage(w) ==
  IF w.storage = Null
    THEN IF ~Truthy(getWalletId(w))
           THEN [w |-> w, ret |-> Null]
           ELSE [ w |-> [w EXCEPT !.storage = NewStorage(getWalletId(w))],
                  ret |-> NewStorage(getWalletId(w)) ]
    ELSE [w |-> w, ret |-> w.storage]

\* _getAccessData()
_getAccessData(w) ==
  LET g == getStorage(w)
  IN IF g.ret = Null THEN [w |-> g.w, ret |-> Null]
     ELSE [w |-> g.w, ret |-> getAccessData(g.w, g.ret)]

\* getAvailableAccessData(): the legacy record first, unwrapped
getAvailableAccessData(w) ==
  LET accessData == getItem(w, ACCESS_DATA_KEY)
  IN IF ~Truthy(accessData) THEN _getAccessData(w)
     ELSE [w |-> w, ret |-> accessData.o]

isLoaded(w) ==
  LET g == getAvailableAccessData(w)
  IN [w |-> g.w, ret |-> g.ret # Null]


\* --------------------------------------------------------- the handlers
\* A handler gives the store it leaves and how it ended: res is "ok" or
\* "throw" (for checkPin: "true", "false" or "throw"); handleDataMigration
\* also gives `at`, the call whose error it threw.  The async handlers of
\* this section run from their start to their end with nothing else running
\* at their awaits and no await rejecting; the next section takes them
\* await by await, each await resolving or rejecting.

\* a cleanWallet that forgets the closed flag
cleanWallet_KeepsClosed(w) ==
  [w EXCEPT !.ls[WALLET_ID_KEY] = NoItem, !.ls[IS_HARDWARE_KEY] = NoItem,
            !.storage = Null]

cleanWallet(w) ==
  LET w1 == removeItem(w, WALLET_ID_KEY)
      w2 == removeItem(w1, IS_HARDWARE_KEY)
      w3 == removeItem(w2, CLOSED_KEY)
  IN [w3 EXCEPT !.storage = Null]

RECURSIVE RemoveAll(_, _, _)
\* for (const key of keys) this.removeItem(key), from the i-th key on
RemoveAll(w, keys, i) ==
  IF i > Len(keys) THEN w
  ELSE RemoveAll(removeItem(w, keys[i]), keys, i + 1)

resetStorage(w) == RemoveAll(removeItem(w, WALLET_ID_KEY), storageKeys, 1)

\* migrateAccessData(pin): the new AccessData, or a throw (no legacy record,
\* or a decryption whose bytes do not decode)
migrateAccessData(w, pin, wrongKey) ==
  LET item == getItem(w, ACCESS_DATA_KEY)
      oldAccessData == item.o
      acct == AESdecrypt(oldAccessData.acctPathMainKey, pin, wrongKey)
      auth == AESdecrypt(oldAccessData.authKey, pin, wrongKey)
      hasAcct == Present(oldAccessData.acctPathMainKey)
      hasAuth == Present(oldAccessData.authKey)
  IN IF item = Null THEN [threw |-> TRUE, ret |-> Undefined]
     ELSE IF (hasAcct /\ acct.threw) \/ (hasAuth /\ auth.threw)
       THEN [threw |-> TRUE, ret |-> Undefined]
     ELSE
       [ threw |-> FALSE,
         ret |->
           [ walletType |-> P2PKH,
             walletFlags |-> 0,
             xpubkey |-> oldAccessData.xpubkey,
             acctPathKey |->
               IF hasAcct THEN encryptData(acct.str, pin) ELSE Undefined,
             authKey |->
               IF hasAuth THEN encryptData(auth.str, pin) ELSE Undefined,
             words |->
               [ data |-> oldAccessData.words,
                 hash |-> oldAccessData.hashPasswd,
                 salt |-> oldAccessData.saltPasswd,
                 iterations |-> oldAccessData.hashIterations,
                 pbkdf2Hasher |-> oldAccessData.pbkdf2Hasher ],
             mainKey |->
               [ data |-> oldAccessData.mainKey,
                 hash |-> oldAccessData.hash,
                 salt |-> oldAccessData.salt,
                 iterations |-> oldAccessData.hashIterations,
                 pbkdf2Hasher |-> oldAccessData.pbkdf2Hasher ] ] ]

RECURSIVE RegisterTokens(_, _, _, _)
\* for (const token of oldTokens) await storage.registerToken(token), from
\* the i-th token on
RegisterTokens(w, storage, oldTokens, i) ==
  IF i > Len(oldTokens) THEN [w |-> w, res |-> "ok"]
  ELSE RegisterTokens(registerToken(w, storage, oldTokens[i]),
                      storage, oldTokens, i + 1)

handleMigrationOldRegisteredTokens(w, storage) ==
  LET oldTokens == getItem(w, OLD_TOKENS_KEY)
  IN IF ~Truthy(oldTokens) THEN [w |-> w, res |-> "ok"]
     ELSE RegisterTokens(w, storage, oldTokens.a, 1)

\* a loop that deletes the legacy record alone
RemoveWalletKeys_RecordOnly(w) == removeItem(w, ACCESS_DATA_KEY)

\* the loop over the keys of localStorage that deletes those with the wallet
\* prefix (key.startsWith('wallet:')), all but 'wallet:id'
RemoveWalletKeys(w) ==
  [w EXCEPT !.ls =
     [key \in Keys |->
        IF w.ls[key] # NoItem /\ key # WALLET_ID_KEY /\ key[1] = "wallet"
          THEN NoItem ELSE w.ls[key]]]

\* handleDataMigration(pin) with nothing else running at its awaits and no
\* await rejecting
handleDataMigration(w, pin, wrongKey) ==
  LET storageVersion == getStorageVersion(w)
      m == migrateAccessData(w, pin, wrongKey)
      accessData == m.ret
      w1 == [w EXCEPT !.storage = Null]
      w2 == setHardwareWallet(w1, Bool(FALSE))
      walletId == getWalletIdFromXPub(accessData.xpubkey)
      w3 == setWalletId(w2, walletId)
      g == getStorage(w3)
      w4 == saveAccessData(g.w, g.ret, accessData)
      w5 == [w4 EXCEPT !.storage = g.ret]
      t == handleMigrationOldRegisteredTokens(w5, g.ret)
      isBackupDone_ == getItem(t.w, OLD_BACKUP_KEY)
      w6 == IF Truthy(isBackupDone_) THEN markBackupDone(t.w) ELSE t.w
      w7 == RemoveWalletKeys(w6)
  IN IF storageVersion # Null
       THEN [w |-> updateStorageVersion(w), res |-> "ok", at |-> ""]
     ELSE IF m.threw
       THEN [w |-> w, res |-> "throw", at |-> "migrateAccessData"]
     ELSE [w |-> updateStorageVersion(w7), res |-> "ok", at |-> ""]

\* checkPin(pinCode) from the resolution of await getAvailableAccessData()
\* to its end
checkPinResumed(accessData, pinCode) ==
  LET mainKey == Field(accessData, "mainKey")
      mainEncryptedData ==
        IF ~Present(Field(mainKey, "data"))
          THEN [ data |-> accessData.mainKey,
                 hash |-> accessData.hash,
                 salt |-> accessData.salt,
                 iterations |-> accessData.hashIterations,
                 pbkdf2Hasher |-> accessData.pbkdf2Hasher ]
          ELSE mainKey
  IN IF accessData = Null \/ mainKey = Undefined THEN "throw"
     ELSE IF checkPassword(mainEncryptedData, pinCode) THEN "true"
     ELSE "false"

\* checkPin(pinCode) with nothing else running at its await
checkPin(w, pinCode) ==
  LET g == getAvailableAccessData(w)
  IN [w |-> g.w, res |-> checkPinResumed(g.ret, pinCode)]

\* cryptoUtils.decryptData(data, password): throws on undefined data and on
\* a password that is not the secret's
decryptData(data, password) ==
  IF data = Undefined \/ ~checkPassword(data, password)
    THEN [threw |-> TRUE, str |-> Undefined]
    ELSE AESdecrypt(data.data, password, "throw")

\* getWalletWords(password) from the resolution of await
\* storage.getAccessData() to its end
getWalletWordsResumed(data, password) ==
  IF data = Null THEN [threw |-> TRUE, str |-> Undefined]
  ELSE decryptData(Field(data, "words"), password)


\* ------------------------------------------- the async calls, await by await
\* An async call runs to its next await and gives way there; any other call
\* of the store may run before it goes on.  A call in flight is its name, its
\* arguments, its place (pc: "save" at await storage.saveAccessData, "token"
\* at await storage.registerToken, "tokensDone" at the await of
\* handleMigrationOldRegisteredTokens once that has returned, "read" at the
\* await of the access data) and its locals; `was` is the StorageVersion it
\* found, `alone` whether nothing else has run since it was called.  A call
\* that has settled is "done" or "failed", with what it returned or the call
\* whose error it threw.  A write to a database takes effect when its promise
\* resolves, and so does a read; saveAccessData and registerToken may reject.
\* `kept` marks the records that stay once the call has settled, with the
\* localStorage the call found.
NoCall ==
  [ pc |-> "idle", op |-> "", args |-> <<>>, accessData |-> Null,
    storage |-> Null, oldTokens |-> <<>>, i |-> 0,
    found |-> [key \in Keys |-> NoItem], was |-> Null, alone |-> TRUE,
    res |-> "pending", at |-> "", ret |-> Undefined, kept |-> FALSE ]

\* the call is made
Begin(w, call, op, args) ==
  [call EXCEPT !.op = op, !.args = args, !.was = getStorageVersion(w),
               !.found = IF call.kept THEN w.ls ELSE @]

\* the call's promise resolves, or rejects with the error of `at`
Done(call, res, ret) == [call EXCEPT !.pc = "done", !.res = res, !.ret = ret]
Failed(call, at) == [call EXCEPT !.pc = "failed", !.res = "throw", !.at = at]

\* initStorage(seed, password, pin) from its start to await
\* storage.saveAccessData (or to the throw of the key derivation)
initStorageCalled(w, call, seed, password, pin) ==
  LET c0 == Begin(w, call, "initStorage", <<seed, password, pin>>)
      w1 == [w EXCEPT !.storage = Null]
      w2 == setHardwareWallet(w1, Bool(FALSE))
      accessData == generateAccessDataFromSeed(seed, pin, password)
      walletId == getWalletIdFromXPub(accessData.xpubkey)
      w3 == setWalletId(w2, walletId)
      g == getStorage(w3)
  IN IF seed \notin Xpubs
       THEN [w |-> w2, call |-> Failed(c0, "generateAccessDataFromSeed")]
     ELSE [ w |-> g.w,
            call |-> [c0 EXCEPT !.pc = "save", !.accessData = accessData,
                                !.storage = g.ret] ]

\* initHWStorage(xpub) from its start to await storage.saveAccessData
initHWStorageCalled(w, call, xpub) ==
  LET c0 == Begin(w, call, "initHWStorage", <<xpub>>)
      w1 == [w EXCEPT !.storage = Null]
      w2 == setHardwareWallet(w1, Bool(TRUE))
      accessData == generateAccessDataFromXpub(xpub)
      walletId == getWalletIdFromXPub(accessData.xpubkey)
      w3 == setWalletId(w2, walletId)
      g == getStorage(w3)
  IN [ w |-> g.w,
       call |-> [c0 EXCEPT !.pc = "save", !.accessData = accessData,
                           !.storage = g.ret] ]

\* a handleDataMigration that prepares the storage before it decrypts
Called_FlagFirst(w, call, pin, wrongKey) ==
  LET storageVersion == getStorageVersion(w)
      w1 == [w EXCEPT !.storage = Null]
      w2 == setHardwareWallet(w1, Bool(FALSE))
      m == migrateAccessData(w2, pin, wrongKey)
      accessData == m.ret
      walletId == getWalletIdFromXPub(accessData.xpubkey)
      w3 == setWalletId(w2, walletId)
      g == getStorage(w3)
      c0 == Begin(w, call, "handleDataMigration", <<pin>>)
  IN IF storageVersion # Null
       THEN [w |-> updateStorageVersion(w), call |-> Done(c0, "ok", Undefined)]
     ELSE IF m.threw
       THEN [w |-> w2, call |-> Failed(c0, "migrateAccessData")]
     ELSE [ w |-> g.w,
            call |-> [c0 EXCEPT !.pc = "save", !.accessData = accessData,
                                !.storage = g.ret] ]

\* handleDataMigration(pin) from its start to await storage.saveAccessData
\* (or to its end, when there is nothing to migrate or the decryption throws)
Called(w, call, pin, wrongKey) ==
  LET storageVersion == getStorageVersion(w)
      m == migrateAccessData(w, pin, wrongKey)
      accessData == m.ret
      w1 == [w EXCEPT !.storage = Null]
      w2 == setHardwareWallet(w1, Bool(FALSE))
      walletId == getWalletIdFromXPub(accessData.xpubkey)
      w3 == setWalletId(w2, walletId)
      g == getStorage(w3)
      c0 == Begin(w, call, "handleDataMigration", <<pin>>)
  IN IF storageVersion # Null
       THEN [w |-> updateStorageVersion(w), call |-> Done(c0, "ok", Undefined)]
     ELSE IF m.threw
       THEN [w |-> w, call |-> Failed(c0, "migrateAccessData")]
     ELSE [ w |-> g.w,
            call |-> [c0 EXCEPT !.pc = "save", !.accessData = accessData,
                                !.storage = g.ret] ]

\* handleMigrationOldRegisteredTokens(storage) from its start to the first
\* await storage.registerToken, or to its return when there is no token
TokensCalled(w, call, storage) ==
  LET oldTokens == getItem(w, OLD_TOKENS_KEY)
  IN IF ~Truthy(oldTokens) \/ Len(oldTokens.a) = 0
       THEN [w |-> w, call |-> [call EXCEPT !.pc = "tokensDone"]]
       ELSE [ w |-> w,
              call |-> [call EXCEPT !.pc = "token", !.storage = storage,
                                    !.oldTokens = oldTokens.a, !.i = 1] ]

\* a migration that deletes the old data as soon as the access data is saved
SaveResolved_RemovesFirst(w, call, ok) ==
  LET w4 == saveAccessData(w, call.storage, call.accessData)
      w5 == [w4 EXCEPT !.storage = call.storage]
      t == TokensCalled(RemoveWalletKeys(w5), call, call.storage)
  IN IF ~ok THEN [w |-> w, call |-> Failed(call, "saveAccessData")]
     ELSE IF call.op = "handleDataMigration"
       THEN [w |-> RemoveWalletKeys(w5), call |-> t.call]
     ELSE [w |-> updateStorageVersion(w5), call |-> Done(call, "ok", call.storage)]

\* from the settling of saveAccessData on: a rejection is thrown to the
\* caller; initStorage and initHWStorage cache the handle, stamp the version
\* and return; handleDataMigration caches the handle and goes on to the first
\* await storage.registerToken, or to the return of
\* handleMigrationOldRegisteredTokens when there is no token
SaveResolved(w, call, ok) ==
  LET w4 == saveAccessData(w, call.storage, call.accessData)
      w5 == [w4 EXCEPT !.storage = call.storage]
  IN IF ~ok THEN [w |-> w, call |-> Failed(call, "saveAccessData")]
     ELSE IF call.op = "handleDataMigration"
       THEN TokensCalled(w5, call, call.storage)
     ELSE [w |-> updateStorageVersion(w5), call |-> Done(call, "ok", call.storage)]

\* a loop that stops at the registerToken that rejects and reports nothing
TokenResolved_Swallow(w, call, ok) ==
  LET w1 == registerToken(w, call.storage, call.oldTokens[call.i])
  IN IF ~ok \/ call.i = Len(call.oldTokens)
       THEN IF call.op = "handleDataMigration"
              THEN [ w |-> IF ok THEN w1 ELSE w,
                     call |-> [call EXCEPT !.pc = "tokensDone"] ]
              ELSE [w |-> IF ok THEN w1 ELSE w, call |-> Done(call, "ok", Undefined)]
     ELSE [w |-> w1, call |-> [call EXCEPT !.i = @ + 1]]

\* from the settling of a registerToken to the next one, or to the return of
\* handleMigrationOldRegisteredTokens (to its caller handleDataMigration, or
\* as a call of its own); a rejection is thrown on
TokenResolved(w, call, ok) ==
  LET w1 == registerToken(w, call.storage, call.oldTokens[call.i])
  IN IF ~ok THEN [w |-> w, call |-> Failed(call, "registerToken")]
     ELSE IF call.i < Len(call.oldTokens)
       THEN [w |-> w1, call |-> [call EXCEPT !.i = @ + 1]]
     ELSE IF call.op = "handleDataMigration"
       THEN [w |-> w1, call |-> [call EXCEPT !.pc = "tokensDone"]]
     ELSE [w |-> w1, call |-> Done(call, "ok", Undefined)]

\* handleDataMigration from the return of
\* handleMigrationOldRegisteredTokens to the end: the backup flag, the
\* deletion of the old data, the version
TokensResolved(w, call) ==
  LET isBackupDone_ == getItem(w, OLD_BACKUP_KEY)
      w6 == IF Truthy(isBackupDone_) THEN markBackupDone(w) ELSE w
      w7 == RemoveWalletKeys(w6)
  IN [w |-> updateStorageVersion(w7), call |-> Done(call, "ok", Undefined)]

\* handleMigrationOldRegisteredTokens(storage), called on its own, from its
\* start to the first await storage.registerToken, or to its return
handleMigrationOldRegisteredTokensCalled(w, call, storage) ==
  LET c0 == Begin(w, call, "handleMigrationOldRegisteredTokens", <<storage>>)
      t == TokensCalled(w, c0, storage)
  IN IF t.call.pc = "tokensDone"
       THEN [w |-> t.w, call |-> Done(c0, "ok", Undefined)]
       ELSE t

\* _getAccessData(), getAvailableAccessData(), isLoaded() and
\* checkPin(pinCode) from their start to the await of the access data:
\* getAvailableAccessData and its callers take the legacy record when there
\* is one, and the handle otherwise.  A _getAccessData without a handle has
\* returned null, a getAvailableAccessData with a legacy record the record;
\* their callers await them.
ReadCalled(w, call, op, args) ==
  LET c0 == Begin(w, call, op, args)
      legacy == getItem(w, ACCESS_DATA_KEY)
      g == getStorage(w)
  IN IF op # "_getAccessData" /\ Truthy(legacy)
       THEN IF op = "getAvailableAccessData"
              THEN [w |-> w, call |-> Done(c0, "ok", legacy.o)]
              ELSE [w |-> w, call |-> [c0 EXCEPT !.pc = "read", !.accessData = legacy.o]]
     ELSE IF op = "_getAccessData" /\ g.ret = Null
       THEN [w |-> g.w, call |-> Done(c0, "ok", Null)]
     ELSE [w |-> g.w, call |-> [c0 EXCEPT !.pc = "read", !.storage = g.ret]]

\* getWalletWords(password) from its start to await storage.getAccessData()
\* (or to its throw, without a handle)
getWalletWordsCalled(w, call, password) ==
  LET c0 == Begin(w, call, "getWalletWords", <<password>>)
      g == getStorage(w)
  IN IF g.ret = Null THEN [w |-> g.w, call |-> Failed(c0, "getStorage")]
     ELSE [w |-> g.w, call |-> [c0 EXCEPT !.pc = "read", !.storage = g.ret]]

\* from the resolution of the awaited access data to the end
ReadResolved(w, call) ==
  LET accessData ==
        IF call.storage # Null THEN getAccessData(w, call.storage)
        ELSE call.accessData
      pinChecked == checkPinResumed(accessData, call.args[1])
      words == getWalletWordsResumed(accessData, call.args[1])
  IN CASE call.op \in {"_getAccessData", "getAvailableAccessData"} ->
            [w |-> w, call |-> Done(call, "ok", accessData)]
       [] call.op = "isLoaded" ->
            [w |-> w, call |-> Done(call, "ok", Bool(accessData # Null))]
       [] call.op = "checkPin" ->
            [w |-> w, call |-> IF pinChecked = "throw" THEN Failed(call, "checkPin")
                               ELSE Done(call, pinChecked, Bool(pinChecked = "true"))]
       [] call.op = "getWalletWords" ->
            [w |-> w, call |-> IF words.threw THEN Failed(call, "decryptData")
                               ELSE Done(call, "ok", words.str)]

\* ------------------------------------------------------ the state machine
VARIABLES
  ls,        \* localStorage: key -> text
  db,        \* the LevelDB databases: wallet id -> [accessData, tokens]
  _storage,  \* this._storage, the cached Storage handle
  net,       \* the wallet-lib's process-wide network name
  last,      \* the last step: the call it belongs to (name and arguments),
             \* how the call ended or "pending" (and the call whose error it
             \* threw or caught), what it returned, the StorageVersion it
             \* found, whether nothing else ran since its start, where the
             \* step took it from ("idle": it was called) and in which slot
  calls      \* the async calls in flight, await by await

vars == <<ls, db, _storage, net, last, calls>>

\* the async calls that may be in flight together
\* the overlapping handleDataMigration calls of an installation

\* the store object `this`, with what it reaches
W == [ls |-> ls, db |-> db, storage |-> _storage, net |-> net]

EmptyLocalStorage == [key \in Keys |-> NoItem]

\* the localStorage a pre-1.0 wallet left behind
LegacyLocalStorage(xpub, pin, password, hasAcct, hasAuth, tokens, backup) ==
  [key \in Keys |->
     CASE key = ACCESS_DATA_KEY ->
            JSONstringify(Obj(LegacyAccessData(xpub, pin, password, hasAcct, hasAuth)))
       [] key = OLD_DATA_KEY -> JSONstringify(Obj([keys |-> xpub]))
       [] key = OLD_TOKENS_KEY -> tokens
       [] key = OLD_BACKUP_KEY -> backup
       [] OTHER -> NoItem]

\* A fresh installation, or a pre-1.0 one.  The store treats all extended
\* public keys alike, and all PINs, so the pre-1.0 wallet is taken to be the
\* one of the first key, under the first PIN; the calls draw their keys and
\* PINs from all of Xpubs and Pins.
InitialLocalStorages ==
  {EmptyLocalStorage} \cup
  { LegacyLocalStorage(xpub, pin, password, hasAcct, hasAuth, tokens, backup) :
      xpub \in {1}, pin \in {1}, password \in Passwords,
      hasAcct \in BOOLEAN, hasAuth \in BOOLEAN,
      tokens \in {NoItem} \cup {JSONstringify(Arr([i \in 1..n |-> i])) :
                                  n \in 0..MaxTokens},
      backup \in {NoItem, JSONstringify(Bool(TRUE))} }

DefaultNetwork == Str(<<"network", 1>>)

NoLast ==
  [ op |-> "new", args |-> <<>>, res |-> "ok", at |-> "", ret |-> Undefined,
    was |-> Null, alone |-> TRUE, from |-> "idle", slot |-> 0 ]

\* the installations of the wallet's life: a fresh one, a pre-1.0 one with
\* every optional key, its two tokens and its backup flag, and a pre-1.0 one
\* with the record alone
Installations ==
  { EmptyLocalStorage,
    LegacyLocalStorage(1, 1, 1, TRUE, TRUE,
                       JSONstringify(Arr(<<1, 2>>)), JSONstringify(Bool(TRUE))),
    LegacyLocalStorage(1, 1, 1, FALSE, FALSE, NoItem, NoItem) }

Init ==
  /\ ls \in Installations
  /\ db = [id \in WalletIds |-> EmptyDB]
  /\ _storage = Null
  /\ net = DefaultNetwork
  /\ last = NoLast
  /\ calls = [c \in 1..MaxInFlight |-> NoCall]

\* a call in flight has seen another step run
Disturbed(call) ==
  IF call.pc \in {"idle", "done", "failed"} THEN call
  ELSE [call EXCEPT !.alone = FALSE]

\* the store after a synchronous call that ended as r.res
Becomes(r, op, args) ==
  /\ ls' = r.w.ls
  /\ db' = r.w.db
  /\ _storage' = r.w.storage
  /\ net' = r.w.net
  /\ last' = [ op |-> op, args |-> args, res |-> r.res,
               at |-> IF "at" \in DOMAIN r THEN r.at ELSE "",
               ret |-> IF "ret" \in DOMAIN r THEN r.ret ELSE Undefined,
               was |-> getItem(W, STORE_VERSION_KEY),
               alone |-> TRUE, from |-> "idle", slot |-> 0 ]
  /\ calls' = [d \in DOMAIN calls |-> Disturbed(calls[d])]

\* the store after the async call of slot c has run from one await to the
\* next, or to its end; a call that has settled leaves its slot, unless its
\* record is kept
Resumes(r, c) ==
  /\ ls' = r.w.ls
  /\ db' = r.w.db
  /\ _storage' = r.w.storage
  /\ net' = r.w.net
  /\ last' = [ op |-> r.call.op, args |-> r.call.args, res |-> r.call.res,
               at |-> r.call.at, ret |-> r.call.ret, was |-> r.call.was,
               alone |-> r.call.alone, from |-> calls[c].pc, slot |-> c ]
  /\ calls' = [d \in DOMAIN calls |->
                 IF d # c THEN Disturbed(calls[d])
                 ELSE IF r.call.pc \in {"done", "failed"} /\ ~r.call.kept
                   THEN NoCall
                 ELSE r.call]

Ok(w) == [w |-> w, res |-> "ok"]

\* the slots in which a call can be made
Idle == {c \in DOMAIN calls : calls[c].pc = "idle"}

InitStorage ==
  \E c \in Idle, seed \in Seeds, password \in Passwords, pin \in Pins :
    Resumes(initStorageCalled(W, calls[c], seed, password, pin), c)

InitHWStorage ==
  \E c \in Idle, xpub \in Xpubs :
    Resumes(initHWStorageCalled(W, calls[c], xpub), c)

HandleDataMigration ==
  \E c \in Idle, pin \in Pins, wrongKey \in {"throw", "garbage"} :
    Resumes(Called(W, calls[c], pin, wrongKey), c)

\* the caller passes a handle: one per wallet
HandleMigrationOldRegisteredTokens ==
  \E c \in Idle, walletId \in WalletIds :
    Resumes(handleMigrationOldRegisteredTokensCalled(W, calls[c],
                                                     NewStorage(walletId)), c)

GetAccessData ==
  \E c \in Idle :
    Resumes(ReadCalled(W, calls[c], "_getAccessData", <<>>), c)

GetAvailableAccessData ==
  \E c \in Idle :
    Resumes(ReadCalled(W, calls[c], "getAvailableAccessData", <<>>), c)

IsLoaded ==
  \E c \in Idle :
    Resumes(ReadCalled(W, calls[c], "isLoaded", <<>>), c)

CheckPin ==
  \E c \in Idle, pinCode \in Pins :
    Resumes(ReadCalled(W, calls[c], "checkPin", <<pinCode>>), c)

GetWalletWords ==
  \E c \in Idle, password \in Passwords :
    Resumes(getWalletWordsCalled(W, calls[c], password), c)

\* the promise of saveAccessData settles
ResolveSave ==
  \E c \in DOMAIN calls, ok \in BOOLEAN :
    /\ calls[c].pc = "save"
    /\ Resumes(SaveResolved(W, calls[c], ok), c)

\* the promise of a registerToken settles
ResolveToken ==
  \E c \in DOMAIN calls, ok \in BOOLEAN :
    /\ calls[c].pc = "token"
    /\ Resumes(TokenResolved(W, calls[c], ok), c)

\* handleDataMigration goes on after handleMigrationOldRegisteredTokens
ResolveTokens ==
  \E c \in DOMAIN calls :
    /\ calls[c].pc = "tokensDone"
    /\ Resumes(TokensResolved(W, calls[c]), c)

\* the promise of the access data resolves
ResolveRead ==
  \E c \in DOMAIN calls :
    /\ calls[c].pc = "read"
    /\ Resumes(ReadResolved(W, calls[c]), c)

SetWalletId ==
  \E walletId \in WalletIds :
    Becomes(Ok(setWalletId(W, walletId)), "setWalletId", <<walletId>>)

GetStorage ==
  Becomes([w |-> getStorage(W).w, res |-> "ok", ret |-> getStorage(W).ret],
          "getStorage", <<>>)

UpdateStorageVersion ==
  Becomes(Ok(updateStorageVersion(W)), "updateStorageVersion", <<>>)

CleanWallet == Becomes(Ok(cleanWallet(W)), "cleanWallet", <<>>)

ResetStorage == Becomes(Ok(resetStorage(W)), "resetStorage", <<>>)

Clear == Becomes(Ok(clear(W)), "clear", <<>>)

Lock == Becomes(Ok(lock(W)), "lock", <<>>)

Unlock == Becomes(Ok(unlock(W)), "unlock", <<>>)

\* the values the settings calls are given
UrlValues == {Str(<<"url", i>>) : i \in Urls}
NetworkNames == {Str(<<"network", i>>) : i \in 1..NumNames}
LedgerVersions == {Str(<<"ledger", i>>) : i \in 1..NumVersions}
\* the signature maps of the first i tokens, the empty map among them
SignatureMaps == {Obj([uid \in 1..i |-> <<"signature", uid>>]) : i \in 0..(NumNames - 1)}

SetServers ==
  \E serverURL \in UrlValues, wsServerURL \in UrlValues \cup {Undefined} :
    Becomes(Ok(setServers(W, serverURL, wsServerURL)),
            "setServers", <<serverURL, wsServerURL>>)

Close == Becomes(Ok(close(W)), "close", <<>>)

Open == Becomes(Ok(open(W)), "open", <<>>)

MarkWalletAsStarted ==
  Becomes(Ok(markWalletAsStarted(W)), "markWalletAsStarted", <<>>)

SetWalletVersion == Becomes(Ok(setWalletVersion(W)), "setWalletVersion", <<>>)

SetNetwork ==
  \E networkName \in NetworkNames :
    Becomes(Ok(setNetwork(W, networkName)), "setNetwork", <<networkName>>)

SetHardwareWallet ==
  \E value \in {Bool(TRUE), Bool(FALSE)} :
    Becomes(Ok(setHardwareWallet(W, value)), "setHardwareWallet", <<value>>)

SetTokenSignatures ==
  \E data \in SignatureMaps :
    Becomes(Ok(setTokenSignatures(W, data)), "setTokenSignatures", <<data>>)

ResetTokenSignatures ==
  Becomes(Ok(resetTokenSignatures(W)), "resetTokenSignatures", <<>>)

MarkBackupDone == Becomes(Ok(markBackupDone(W)), "markBackupDone", <<>>)

MarkBackupAsNotDone ==
  Becomes(Ok(markBackupAsNotDone(W)), "markBackupAsNotDone", <<>>)

SaveLedgerAppVersion ==
  \E ledgerVersion \in LedgerVersions :
    Becomes(Ok(saveLedgerAppVersion(W, ledgerVersion)),
            "saveLedgerAppVersion", <<ledgerVersion>>)

\* The wallet's life: the identity, cleaning and reset, initialization,
\* with the migration, the PIN check and the lock.
\* The async calls go await by await, and any other call may run while one
\* waits.
Next ==
  \/ Clear
  \/ SetWalletId
  \/ CleanWallet
  \/ ResetStorage
  \/ InitStorage
  \/ InitHWStorage
  \/ HandleDataMigration
  \/ CheckPin
  \/ ResolveSave
  \/ ResolveToken
  \/ ResolveTokens
  \/ ResolveRead
  \/ Lock
  \/ Unlock

Spec == Init /\ [][Next]_vars

\* The handle, the reads of the access data and of the words, the version
\* and the registration of the old tokens, on a store that is initialized
\* and reset.
NextReads ==
  \/ GetStorage
  \/ GetAccessData
  \/ GetAvailableAccessData
  \/ IsLoaded
  \/ UpdateStorageVersion
  \/ GetWalletWords
  \/ HandleMigrationOldRegisteredTokens
  \/ ResolveRead
  \/ ResolveToken
  \/ InitStorage
  \/ InitHWStorage
  \/ ResolveSave
  \/ CleanWallet
  \/ ResetStorage

SpecReads == Init /\ [][NextReads]_vars

\* The settings of a fresh installation: the setters of the server URLs and
\* of the lock, closed, started, hardware, network, signature, backup,
\* wallet version and Ledger flags, with cleaning and reset.
NextSettings ==
  \/ SetServers
  \/ Lock
  \/ Unlock
  \/ Close
  \/ Open
  \/ MarkWalletAsStarted
  \/ SetWalletVersion
  \/ SetNetwork
  \/ SetHardwareWallet
  \/ SetTokenSignatures
  \/ ResetTokenSignatures
  \/ MarkBackupDone
  \/ MarkBackupAsNotDone
  \/ SaveLedgerAppVersion
  \/ CleanWallet
  \/ ResetStorage
  \/ Clear

InitSettings ==
  /\ Init
  /\ ls = EmptyLocalStorage

SpecSettings == InitSettings /\ [][NextSettings]_vars

\* the settings are few: of the keys the settings calls alone write, at most
\* MaxSettings are present (the two server URLs, written together, count
\* once)
FewSettings ==
  Cardinality({ key \in { LOCKED_KEY, CLOSED_KEY, STARTED_KEY, WALLET_VERSION_KEY,
                          NETWORK_KEY, SERVER_KEY, TOKEN_SIGNATURES_KEY,
                          IS_BACKUP_DONE_KEY, LEDGER_APP_VERSION_KEY } :
                  ls[key] # NoItem }) <= MaxSettings

\* Every setter of the settings in the life of a wallet on a fresh
\* installation: initialization, migration calls, cleaning, reset and clear,
\* with a setter called wherever it leaves the settings few.
NextVersion ==
  \/ InitStorage
  \/ InitHWStorage
  \/ ResolveSave
  \/ HandleDataMigration
  \/ CleanWallet
  \/ ResetStorage
  \/ Clear
  \/ SetHardwareWallet
  \/ SetServers /\ FewSettings'
  \/ Lock /\ FewSettings'
  \/ Unlock /\ FewSettings'
  \/ Close /\ FewSettings'
  \/ Open /\ FewSettings'
  \/ MarkWalletAsStarted /\ FewSettings'
  \/ SetWalletVersion /\ FewSettings'
  \/ SetNetwork /\ FewSettings'
  \/ SetTokenSignatures /\ FewSettings'
  \/ ResetTokenSignatures /\ FewSettings'
  \/ MarkBackupDone /\ FewSettings'
  \/ MarkBackupAsNotDone /\ FewSettings'
  \/ SaveLedgerAppVersion /\ FewSettings'

SpecVersion == InitSettings /\ [][NextVersion]_vars

\* The cleaning of a wallet whose settings are written: a hardware wallet is
\* initialized on a fresh or a pre-1.0 installation, the lock, the closed and
\* started flags, the network, the servers, the backup flag and the token
\* signatures are set, and the wallet is cleaned.
NextClean ==
  \/ CleanWallet
  \/ InitHWStorage
  \/ ResolveSave
  \/ Lock
  \/ Close
  \/ MarkWalletAsStarted
  \/ SetNetwork
  \/ SetServers
  \/ MarkBackupDone
  \/ SetTokenSignatures

SpecClean == Init /\ [][NextClean]_vars

\* The key-value adapter over an installation that an old version of the
\* wallet left: under two of the keys, nothing, a string saved as it stood
\* (not valid JSON), or a string saved JSON encoded.
AdapterKeys == {WALLET_ID_KEY, SERVER_KEY}

\* the values setItem is given: the JSON values, and undefined, which is not
\* one
ItemValues ==
  {Undefined, Null, Bool(TRUE), Bool(FALSE), Num(0), Num(version),
   Str(<<>>), Obj(<<>>), Arr(<<>>)} \cup UrlValues

InitAdapter ==
  /\ ls \in { [key \in Keys |-> IF key \in AdapterKeys THEN f[key] ELSE NoItem] :
               f \in [AdapterKeys ->
                        {NoItem} \cup {RawText(<<"url", i>>) : i \in Urls}
                          \cup {JSONstringify(Str(<<"url", i>>)) : i \in Urls}] }
  /\ db = [id \in WalletIds |-> EmptyDB]
  /\ _storage = Null
  /\ net = DefaultNetwork
  /\ last = NoLast
  /\ calls = [c \in 1..MaxInFlight |-> NoCall]

GetItem ==
  \E key \in AdapterKeys :
    Becomes([ w |-> getItemSaves(W, key), res |-> "ok", ret |-> getItem(W, key),
              at |-> IF SyntaxError(ls[key]) THEN "SyntaxError" ELSE "" ],
            "getItem", <<key>>)

SetItem ==
  \E key \in AdapterKeys, value \in ItemValues :
    Becomes(Ok(setItem(W, key, value)), "setItem", <<key, value>>)

RemoveItem ==
  \E key \in AdapterKeys :
    Becomes(Ok(removeItem(W, key)), "removeItem", <<key>>)

NextAdapter ==
  \/ GetItem
  \/ SetItem
  \/ RemoveItem
  \/ Clear

SpecAdapter == InitAdapter /\ [][NextAdapter]_vars

\* The migration of a pre-1.0 installation, attempted until it succeeds,
\* with the PIN checks of the lock screen.
InitMigration ==
  /\ ls \in InitialLocalStorages \ {EmptyLocalStorage}
  /\ db = [id \in WalletIds |-> EmptyDB]
  /\ _storage = Null
  /\ net = DefaultNetwork
  /\ last = NoLast
  /\ calls = [c \in 1..MaxInFlight |-> NoCall]

NextMigration ==
  \/ HandleDataMigration
  \/ CheckPin
  \/ ResolveSave
  \/ ResolveToken
  \/ ResolveTokens
  \/ ResolveRead

SpecMigration == InitMigration /\ [][NextMigration]_vars

\* The migration of a pre-1.0 installation by calls that overlap: each call
\* is made once and its record is kept, and any call in flight may be the
\* next to go on.
InitInterleaved ==
  /\ ls \in InitialLocalStorages \ {EmptyLocalStorage}
  /\ db = [id \in WalletIds |-> EmptyDB]
  /\ _storage = Null
  /\ net = DefaultNetwork
  /\ last = NoLast
  /\ calls = [c \in 1..NumCalls |-> [NoCall EXCEPT !.kept = TRUE]]

NextInterleaved ==
  \/ HandleDataMigration
  \/ ResolveSave
  \/ ResolveToken
  \/ ResolveTokens

SpecInterleaved == InitInterleaved /\ [][NextInterleaved]_vars


\* ------------------------------------------------------------ the claims
\* every text in localStorage is valid JSON: no getItem of the handlers
\* saves anything
NoRawText == \A key \in Keys : ~SyntaxError(ls[key])

\* what the claims read of a store
HasLegacyRecord(l) == l[ACCESS_DATA_KEY] # NoItem
VersionAbsent(l) == l[STORE_VERSION_KEY] = NoItem
\* the PIN is the one the legacy record's main key is kept under
IsRealPin(l, pin) == JSONparse(l[ACCESS_DATA_KEY]).o.hash.pbkdf2 = pin
\* no flat key with the wallet prefix is left but 'wallet:id'
NoWalletKeyButId(l) ==
  \A key \in Keys : (key[1] = "wallet" /\ key # WALLET_ID_KEY) => l[key] = NoItem
\* the access data persisted in the database of a wallet id
Persisted(d, walletId) == d[walletId].accessData

\* the step settles a call of `op` during which no other call of the store
\* has run: the store it acts on is the one the call found, but for what the
\* call itself has written
SettlesAlone(op) ==
  /\ last'.op = op
  /\ last'.res # "pending"
  /\ last'.alone

\* C1: with a legacy record present and StorageVersion absent, a
\* handleDataMigration with a PIN other than the wallet's real PIN (no other
\* call running meanwhile) fails and leaves the legacy record present and
\* StorageVersion absent, whatever the shape of the legacy record.
C1_WrongPinMigrationFails ==
  [][ ( /\ SettlesAlone("handleDataMigration")
        /\ HasLegacyRecord(ls) /\ VersionAbsent(ls)
        /\ ~IsRealPin(ls, last'.args[1]) )
      => ( /\ last'.res = "throw"
           /\ HasLegacyRecord(ls') /\ VersionAbsent(ls') ) ]_vars

\* C2: a migration of a legacy record (StorageVersion absent) that completes
\* with the correct PIN, no other call running meanwhile, leaves an
\* AccessData persisted with walletType P2PKH, walletFlags 0 and the legacy
\* xpubkey, 'wallet:id' the identity of that xpubkey, the hardware flag
\* false, StorageVersion current, and no flat key with the wallet prefix but
\* 'wallet:id'.
C2_MigrationResult ==
  [][ ( /\ SettlesAlone("handleDataMigration") /\ last'.res = "ok"
        /\ HasLegacyRecord(ls) /\ VersionAbsent(ls)
        /\ IsRealPin(ls, last'.args[1]) )
      => LET xpubkey == JSONparse(ls[ACCESS_DATA_KEY]).o.xpubkey
             walletId == Str(<<"walletid", xpubkey>>)
         IN /\ ls'[WALLET_ID_KEY] = JSONstringify(walletId)
            /\ Persisted(db', walletId) # Null
            /\ Persisted(db', walletId).walletType = "p2pkh"
            /\ Persisted(db', walletId).walletFlags = 0
            /\ Persisted(db', walletId).xpubkey = xpubkey
            /\ _getAccessData(W').ret = Persisted(db', walletId)
            /\ isHardwareWallet(W') = Bool(FALSE)
            /\ ls'[STORE_VERSION_KEY] = JSONstringify(Num(1))
            /\ NoWalletKeyButId(ls') ]_vars

\* a migration of the legacy record has just completed under its real PIN,
\* await by await with nothing in between
C2_Witness ==
  /\ last.op = "handleDataMigration" /\ last.res = "ok" /\ last.was = Null
  /\ last.alone /\ last.from = "tokensDone"
  /\ ~HasLegacyRecord(ls)
  /\ \E walletId \in WalletIds :
       /\ ls[WALLET_ID_KEY] = JSONstringify(walletId)
       /\ Persisted(db, walletId) # Null
       /\ Persisted(db, walletId).mainKey.hash.pbkdf2 = last.args[1]
       /\ Persisted(db, walletId).acctPathKey # Undefined
       /\ db[walletId].tokens # {}

\* C3: handleDataMigration called with StorageVersion set succeeds whatever
\* the PIN and changes nothing (StorageVersion is re-written to the value it
\* had, the current one); a migration that succeeded leaves StorageVersion
\* set, so a second call in sequence is such a call.
C3_MigrationIdempotent ==
  [][ /\ ( /\ last'.op = "handleDataMigration" /\ last'.from = "idle"
           /\ ~VersionAbsent(ls) )
         => ( /\ last'.res = "ok"
              /\ ls' = ls /\ db' = db /\ _storage' = _storage /\ net' = net
              /\ ls'[STORE_VERSION_KEY] = JSONstringify(Num(1)) )
      /\ ( last'.op = "handleDataMigration" /\ last'.res = "ok" )
         => ~VersionAbsent(ls') ]_vars

\* a call with StorageVersion already set, under a PIN that is not the
\* migrated wallet's
C3_Witness ==
  /\ last.op = "handleDataMigration" /\ last.res = "ok" /\ last.was # Null
  /\ \E walletId \in WalletIds :
       /\ ls[WALLET_ID_KEY] = JSONstringify(walletId)
       /\ Persisted(db, walletId) # Null
       /\ "mainKey" \in DOMAIN Persisted(db, walletId)
       /\ Persisted(db, walletId).mainKey.hash.pbkdf2 # last.args[1]

\* the StorageVersion kept in a localStorage, as a number (-1 for a value
\* that is no number)
VersionOf(l) ==
  LET v == JSONparse(l[STORE_VERSION_KEY])
  IN IF v.t = "num" THEN v.n ELSE -1

\* C4 as stated: once StorageVersion is set, no operation (initStorage,
\* initHWStorage, handleDataMigration, cleanWallet, resetStorage, clear, the
\* setters of the settings) lowers it or removes it.
C4_VersionNeverLowered ==
  [][ ~VersionAbsent(ls)
      => ( ~VersionAbsent(ls') /\ VersionOf(ls') >= VersionOf(ls) ) ]_vars

\* C4, amended: once StorageVersion is set, no operation other than
\* resetStorage and clear (not initStorage, initHWStorage,
\* handleDataMigration, cleanWallet or any setter of the settings) lowers it
\* or removes it.
C4_VersionKeptButByReset ==
  [][ ( ~VersionAbsent(ls) /\ last'.op \notin {"resetStorage", "clear"} )
      => ( ~VersionAbsent(ls') /\ VersionOf(ls') >= VersionOf(ls) ) ]_vars

\* the wallet version has just been written on an initialized wallet, and
\* StorageVersion is as initialization set it
C4_Witness ==
  /\ last.op = "setWalletVersion" /\ last.was # Null
  /\ ls[WALLET_VERSION_KEY] # NoItem
  /\ ~VersionAbsent(ls) /\ VersionOf(ls) = version
  /\ ls[WALLET_ID_KEY] # NoItem
  /\ Persisted(db, JSONparse(ls[WALLET_ID_KEY])) # Null

\* C5: after initStorage(seed, password, pin) succeeds, from any state and
\* with no other call running meanwhile, isLoadedSync() is true, checkPin(pin)
\* is true and checkPin of every other PIN is false.
C5_InitThenCheckPin ==
  ( last.op = "initStorage" /\ last.res = "ok" /\ last.alone )
  => /\ isLoadedSync(W)
     /\ checkPin(W, last.args[3]).res = "true"
     /\ \A p \in Pins \ {last.args[3]} : checkPin(W, p).res = "false"

\* 'wallet:id' names a wallet for which no AccessData is persisted
DanglingIdentity(l, d) ==
  /\ l[WALLET_ID_KEY] # NoItem
  /\ JSONparse(l[WALLET_ID_KEY]) \in WalletIds
  /\ Persisted(d, JSONparse(l[WALLET_ID_KEY])) = Null

\* C6: an initStorage or initHWStorage that fails, no other call running
\* meanwhile, does not leave 'wallet:id' present with no AccessData persisted
\* for it.
C6_NoDanglingIdentity ==
  ( /\ last.op \in {"initStorage", "initHWStorage"}
    /\ last.res = "throw" /\ last.alone )
  => ~DanglingIdentity(ls, db)

\* C7: right after resetStorage(), isLocked() is true and isLoadedSync() is
\* false.
C7_ResetLockedNotLoaded ==
  last.op = "resetStorage"
  => ( isLocked(W) = Bool(TRUE) /\ ~isLoadedSync(W) )

\* access data of either format exists: the legacy record, or the AccessData
\* of the wallet 'wallet:id' names
AccessDataExists(l, d) ==
  \/ HasLegacyRecord(l)
  \/ /\ l[WALLET_ID_KEY] # NoItem
     /\ Persisted(d, JSONparse(l[WALLET_ID_KEY])) # Null

\* C8: checkPin gives a boolean for every PIN whenever access data of either
\* format exists, and throws only when none does.
C8_CheckPinThrowsOnlyUnloaded ==
  \A p \in Pins :
    checkPin(W, p).res = "throw" <=> ~AccessDataExists(ls, db)

\* C9: after setServers(serverURL, wsServerURL) with two distinct URLs,
\* getServer() is serverURL and getWsServer() is wsServerURL.
C9_ServersRoundTrip ==
  ( /\ last.op = "setServers"
    /\ last.args[2] # Undefined
    /\ last.args[1] # last.args[2] )
  => ( getServer(W) = last.args[1] /\ getWsServer(W) = last.args[2] )


\* the getters of the seven flags of C10
FlagNames ==
  {"lock", "closed", "hardware", "network", "signatures", "backup", "ledger"}

Getter(flag, w) ==
  CASE flag = "lock" -> isLocked(w)
    [] flag = "closed" -> wasClosed(w)
    [] flag = "hardware" -> isHardwareWallet(w)
    [] flag = "network" -> getNetwork(w)
    [] flag = "signatures" -> getTokenSignatures(w)
    [] flag = "backup" -> isBackupDone(w)
    [] flag = "ledger" -> getLedgerAppVersion(w)

\* the key each flag is kept under, and the calls that set it
FlagKey(flag) ==
  CASE flag = "lock" -> <<"localstorage", "lock">>
    [] flag = "closed" -> <<"localstorage", "closed">>
    [] flag = "hardware" -> <<"localstorage", "ishardware">>
    [] flag = "network" -> <<"localstorage", "network">>
    [] flag = "signatures" -> <<"localstorage", "token:signatures">>
    [] flag = "backup" -> <<"localstorage", "backup">>
    [] flag = "ledger" -> <<"localstorage", "ledger:version">>

SettersOf(flag) ==
  CASE flag = "lock" -> {"lock", "unlock"}
    [] flag = "closed" -> {"close", "open"}
    [] flag = "hardware" -> {"setHardwareWallet"}
    [] flag = "network" -> {"setNetwork"}
    [] flag = "signatures" -> {"setTokenSignatures", "resetTokenSignatures"}
    [] flag = "backup" -> {"markBackupDone", "markBackupAsNotDone"}
    [] flag = "ledger" -> {"saveLedgerAppVersion"}

\* every call of a setter of the settings: the setters of the seven flags,
\* and those of the server URLs, of the started flag and of the wallet
\* version
SetterCalls ==
  UNION {SettersOf(flag) : flag \in FlagNames}
    \cup {"setServers", "markWalletAsStarted", "setWalletVersion"}

\* the documented defaults
HasDefault(flag) == flag \in {"lock", "closed", "hardware", "signatures", "backup"}

Default(flag) ==
  CASE flag = "lock" -> Bool(TRUE)
    [] flag = "closed" -> Bool(FALSE)
    [] flag = "hardware" -> Bool(FALSE)
    [] flag = "signatures" -> Obj(<<>>)
    [] flag = "backup" -> Bool(FALSE)

\* what the call `c` wrote: the value its flag's getter must now give
Written(c) ==
  CASE c.op = "lock" -> Bool(TRUE)
    [] c.op = "unlock" -> Bool(FALSE)
    [] c.op = "close" -> Bool(TRUE)
    [] c.op = "open" -> Bool(FALSE)
    [] c.op = "markBackupDone" -> Bool(TRUE)
    [] c.op \in {"setHardwareWallet", "setNetwork", "setTokenSignatures",
                 "saveLedgerAppVersion"} -> c.args[1]

\* the calls that remove their flag
Removers == {"resetTokenSignatures", "markBackupAsNotDone"}

\* a flag whose key is absent reads as its default
ReadsDefaults(w) ==
  \A flag \in FlagNames :
    ( HasDefault(flag) /\ w.ls[FlagKey(flag)] = NoItem )
    => Getter(flag, w) = Default(flag)

\* C10: each flag's getter gives what its setter last wrote, whatever is
\* written to the other flags, and the documented default when the flag was
\* never set or was removed.
C10_SettingsRoundTrip ==
  [][ /\ ReadsDefaults(W) /\ ReadsDefaults(W')
      /\ \A flag \in FlagNames :
           /\ ( last'.op \in SettersOf(flag) \ Removers )
              => Getter(flag, W') = Written(last')
           /\ ( last'.op \in SettersOf(flag) \cap Removers )
              => ls'[FlagKey(flag)] = NoItem
           /\ ( last'.op \in SetterCalls \ SettersOf(flag) )
              => Getter(flag, W') = Getter(flag, W) ]_vars

\* the wallet was unlocked and a network was then set: the lock reads as
\* written, not as its default, after a write to another flag
C10_Witness ==
  /\ last.op = "setNetwork"
  /\ getNetwork(W) = last.args[1]
  /\ ls[LOCKED_KEY] # NoItem
  /\ isLocked(W) = Bool(FALSE)


\* the flat keys of the identity, the StorageVersion and every settings flag
\* the store exposes
SettingsKeys ==
  { <<"wallet", "id">>, <<"localstorage", "storeversion">>,
    <<"localstorage", "lock">>, <<"localstorage", "closed">>,
    <<"localstorage", "started">>, <<"localstorage", "ishardware">>,
    <<"localstorage", "network">>, <<"localstorage", "server">>,
    <<"localstorage", "wsserver">>, <<"localstorage", "backup">>,
    <<"localstorage", "token:signatures">>, <<"localstorage", "version">>,
    <<"localstorage", "ledger:version">> }

\* C11: right after resetStorage(), 'wallet:id', StorageVersion and every
\* settings flag (lock, closed, started, hardware, network, the two server
\* URLs, backup-done, token signatures, wallet version, Ledger app version)
\* are absent from localStorage.
C11_ResetRemovesEverySetting ==
  last.op = "resetStorage"
  => \A key \in SettingsKeys : ls[key] = NoItem

\* the keys cleanWallet removes
CleanedKeys ==
  { <<"wallet", "id">>, <<"localstorage", "ishardware">>,
    <<"localstorage", "closed">> }

\* C12: cleanWallet() removes 'wallet:id', the hardware flag and the closed
\* flag and sets the cached handle to null; every other flat key and the
\* data persisted in the databases are as before.
C12_CleanWalletFrame ==
  [][ last'.op = "cleanWallet"
      => /\ \A key \in CleanedKeys : ls'[key] = NoItem
         /\ _storage' = Null
         /\ \A key \in Keys \ CleanedKeys : ls'[key] = ls[key]
         /\ db' = db ]_vars

\* a hardware wallet initialized on a pre-1.0 installation has been cleaned
\* with its settings written: the lock, the started flag, the network, the
\* two server URLs, the backup flag, the token signatures, StorageVersion,
\* the legacy record and the wallet's database are still there
C12_Witness ==
  /\ last.op = "cleanWallet"
  /\ \A key \in CleanedKeys : ls[key] = NoItem
  /\ _storage = Null
  /\ \A key \in { LOCKED_KEY, STARTED_KEY, NETWORK_KEY, SERVER_KEY,
                   WS_SERVER_KEY, IS_BACKUP_DONE_KEY, TOKEN_SIGNATURES_KEY } :
       ls[key] # NoItem
  /\ ~VersionAbsent(ls)
  /\ HasLegacyRecord(ls)
  /\ \E walletId \in WalletIds : Persisted(db, walletId) # Null

\* what C13 says a read of the access data gives
Available(l, d) ==
  IF HasLegacyRecord(l) THEN JSONparse(l[ACCESS_DATA_KEY]).o
  ELSE IF l[WALLET_ID_KEY] # NoItem THEN Persisted(d, JSONparse(l[WALLET_ID_KEY]))
  ELSE Null

\* C13: getAvailableAccessData() gives the legacy record whenever
\* 'wallet:accessData' is present, otherwise the AccessData persisted for the
\* wallet 'wallet:id' names, and null when there is neither a legacy record
\* nor a 'wallet:id'; isLoaded() is true exactly when that result is not
\* null; neither throws.  (Of calls during which no other call has run.)
C13_AvailableAccessData ==
  [][ /\ SettlesAlone("getAvailableAccessData")
         => ( last'.res = "ok" /\ last'.ret = Available(ls, db) )
      /\ SettlesAlone("isLoaded")
         => ( last'.res = "ok" /\ last'.ret = Bool(Available(ls, db) # Null) )
    ]_vars

\* the secrets an AccessData can hold
SecretFields == {"words", "mainKey", "acctPathKey", "authKey"}

\* C14: after initHWStorage(xpub) succeeds, from any state and with no
\* other call running meanwhile, 'wallet:id' is the identity of the xpub,
\* isHardwareWallet() is true, an AccessData in hardware mode with the xpub
\* and no secret is persisted under that identity, and StorageVersion is the
\* current version; the call is given the xpub alone.
C14_InitHWResult ==
  ( last.op = "initHWStorage" /\ last.res = "ok" /\ last.alone )
  => LET walletId == Str(<<"walletid", last.args[1]>>)
     IN /\ Len(last.args) = 1
        /\ ls[WALLET_ID_KEY] = JSONstringify(walletId)
        /\ isHardwareWallet(W) = Bool(TRUE)
        /\ Persisted(db, walletId) # Null
        /\ Persisted(db, walletId).xpubkey = last.args[1]
        /\ Persisted(db, walletId).walletFlags = 3
        /\ DOMAIN Persisted(db, walletId) \cap SecretFields = {}
        /\ _getAccessData(W).ret = Persisted(db, walletId)
        /\ ls[STORE_VERSION_KEY] = JSONstringify(Num(1))

\* a hardware wallet has been initialized where a software wallet of another
\* key was loaded
C14_Witness ==
  /\ last.op = "initHWStorage" /\ last.res = "ok" /\ last.was # Null
  /\ last.alone /\ last.from = "save"
  /\ isHardwareWallet(W) = Bool(TRUE)
  /\ \E other \in WalletIds :
       /\ ls[WALLET_ID_KEY] # JSONstringify(other)
       /\ Persisted(db, other) # Null
       /\ "mainKey" \in DOMAIN Persisted(db, other)

\* C15: in every reachable state in which StorageVersion is set,
\* 'wallet:accessData' is absent.
C15_NoLegacyOnceVersioned ==
  ~VersionAbsent(ls) => ~HasLegacyRecord(ls)

\* C16: getItem(key) of a key whose text is a string s that is not valid
\* JSON returns s and leaves the key holding the JSON encoding of s; a
\* getItem of a key that holds JSON returns the encoded value and leaves
\* localStorage as it is, so every later getItem(key) returns the same s with
\* nothing saved again; getItem(key) right after setItem(key, v) returns v
\* for every JSON value v.  getItem never throws.
C16_GetItemRepair ==
  [][ last'.op = "getItem"
      => LET key == last'.args[1]
         IN /\ last'.res = "ok"
            /\ ls[key].k = "raw"
               => /\ last'.ret = [t |-> "str", s |-> ls[key].s]
                  /\ ls'[key] = [k |-> "json", v |-> last'.ret]
                  /\ \A other \in Keys \ {key} : ls'[other] = ls[other]
            /\ ls[key].k = "json"
               => ( last'.ret = ls[key].v /\ ls' = ls /\ last'.at = "" )
            /\ ( last.op = "getItem" /\ last.args[1] = key )
               => ( last'.ret = last.ret /\ ls' = ls /\ last'.at = "" )
            /\ ( last.op = "setItem" /\ last.args[1] = key
                  /\ last.args[2] # [t |-> "undefined"] )
               => ( last'.ret = last.args[2] /\ ls' = ls /\ last'.at = "" )
    ]_vars

\* a getItem has caught the SyntaxError of a string saved as it stood, has
\* returned the string and has left its JSON encoding under the key
C16_Witness ==
  /\ last.op = "getItem" /\ last.at = "SyntaxError"
  /\ last.ret = Str(<<"url", 1>>)
  /\ ls[last.args[1]] = JSONstringify(Str(<<"url", 1>>))

\* C17: a handleDataMigration that fails in migrateAccessData (a decryption
\* of a legacy secret throws) has written and removed no flat key, the
\* legacy record, 'wallet:id', the hardware flag and the settings among
\* them, has left StorageVersion absent and has written nothing to the
\* databases.
C17_FailedDecryptionWritesNothing ==
  [][ ( /\ last'.op = "handleDataMigration"
        /\ last'.res = "throw" /\ last'.at = "migrateAccessData" )
      => ( /\ last'.from = "idle"
           /\ ls' = ls /\ db' = db /\ VersionAbsent(ls') ) ]_vars

\* a migration under a wrong PIN has failed in the decryption, on an
\* installation where an earlier attempt had written 'wallet:id' and the
\* wallet had been unlocked
C17_Witness ==
  /\ last.op = "handleDataMigration"
  /\ last.res = "throw" /\ last.at = "migrateAccessData"
  /\ HasLegacyRecord(ls) /\ ~IsRealPin(ls, last.args[1])
  /\ ls[WALLET_ID_KEY] # NoItem
  /\ ls[LOCKED_KEY] # NoItem

\* the tokens of the legacy list 'wallet:tokens'
OldTokens(l) ==
  IF l[OLD_TOKENS_KEY] = NoItem THEN {}
  ELSE {JSONparse(l[OLD_TOKENS_KEY]).a[i] :
          i \in 1..Len(JSONparse(l[OLD_TOKENS_KEY]).a)}

\* the tokens of a list
Range(list) == {list[i] : i \in 1..Len(list)}

\* C18: no step of a migration (a handleDataMigration that found
\* StorageVersion absent) removes or changes a legacy key or stamps
\* StorageVersion but the last one, which comes once saveAccessData has
\* resolved and every token of the list the call read, the legacy
\* 'wallet:tokens' list, has been registered; a rejection of saveAccessData
\* or of a registerToken is thrown to the caller, and the call returns
\* normally from that last step alone.
C18_DestructiveStepsLast ==
  [][ ( last'.op = "handleDataMigration" /\ last'.was = Null )
      => LET call == IF last'.from = "idle" THEN NoCall ELSE calls[last'.slot]
             dbname == call.storage.dbname
         IN /\ last'.from # "tokensDone"
               => /\ \A key \in LegacyKeys : ls'[key] = ls[key]
                  /\ ls'[STORE_VERSION_KEY] = ls[STORE_VERSION_KEY]
            /\ last'.at \in {"saveAccessData", "registerToken"}
               => last'.res = "throw"
            /\ last'.res = "ok" <=> last'.from = "tokensDone"
            /\ last'.from = "tokensDone"
               => /\ Persisted(db', dbname) # Null
                  /\ Range(call.oldTokens) \subseteq db'[dbname].tokens
                  /\ last'.alone
                     => /\ OldTokens(ls) \subseteq db'[dbname].tokens
                        /\ Persisted(db', dbname) = call.accessData
    ]_vars

\* a migration has failed at the second registerToken: the AccessData and
\* the first token are persisted, the legacy record and the token list are
\* still there, StorageVersion is absent
C18_Witness ==
  /\ last.op = "handleDataMigration"
  /\ last.res = "throw" /\ last.at = "registerToken"
  /\ HasLegacyRecord(ls) /\ ls[OLD_TOKENS_KEY] # NoItem
  /\ VersionAbsent(ls)
  /\ ls[WALLET_ID_KEY] # NoItem
  /\ Persisted(db, JSONparse(ls[WALLET_ID_KEY])) # Null
  /\ db[JSONparse(ls[WALLET_ID_KEY])].tokens = {1}

\* the PIN the legacy record's main key is kept under
RealPin(l) == JSONparse(l[ACCESS_DATA_KEY]).o.hash.pbkdf2

\* the installation as the old wallet left it: the legacy keys of l and
\* nothing else, empty databases, no handle
Pristine(l) ==
  [ ls |-> [key \in Keys |-> IF key \in LegacyKeys THEN l[key] ELSE NoItem],
    db |-> [id \in WalletIds |-> EmptyDB],
    storage |-> Null,
    net |-> DefaultNetwork ]

\* C19: on a pre-1.0 installation on which only migrations that failed have
\* run (legacy record present, StorageVersion absent), a handleDataMigration
\* with the wallet's PIN and no fault completes, and leaves exactly the state
\* a first attempt would have left: the AccessData persisted with the legacy
\* key material, no legacy key, StorageVersion current.
C19_RetryReachesMigratedState ==
  ( HasLegacyRecord(ls) /\ VersionAbsent(ls) )
  => \A wrongKey \in {"throw", "garbage"} :
       LET retry == handleDataMigration(W, RealPin(ls), wrongKey)
           first == handleDataMigration(Pristine(ls), RealPin(ls), wrongKey)
           legacy == JSONparse(ls[ACCESS_DATA_KEY]).o
           walletId == Str(<<"walletid", legacy.xpubkey>>)
       IN /\ retry.res = "ok" /\ first.res = "ok"
          /\ retry.w = first.w
          /\ Persisted(retry.w.db, walletId) # Null
          /\ Persisted(retry.w.db, walletId).mainKey.data = legacy.mainKey
          /\ Persisted(retry.w.db, walletId).words.data = legacy.words
          /\ NoWalletKeyButId(retry.w.ls)
          /\ retry.w.ls[STORE_VERSION_KEY] = JSONstringify(Num(1))

\* two kinds of failed attempt have left their marks: the first token is
\* registered (a registerToken failed after it) and the last attempt failed
\* in the decryption, under a wrong PIN
C19_Witness ==
  /\ HasLegacyRecord(ls) /\ VersionAbsent(ls)
  /\ last.op = "handleDataMigration" /\ last.res = "throw"
  /\ last.at = "migrateAccessData" /\ last.args[1] # RealPin(ls)
  /\ ls[WALLET_ID_KEY] # NoItem
  /\ db[JSONparse(ls[WALLET_ID_KEY])].tokens = {1}
  /\ Len(JSONparse(ls[OLD_TOKENS_KEY]).a) = 2

\* C20: in every reachable state, a cached handle means that 'wallet:id' is
\* present and that the handle is the one of that wallet's database; and
\* isLoaded() true implies isLoadedSync() true.
C20_CachedHandleConsistent ==
  /\ _storage # Null
     => /\ ls[WALLET_ID_KEY] # NoItem
        /\ _storage = [dbname |-> JSONparse(ls[WALLET_ID_KEY])]
  /\ isLoaded(W).ret => isLoadedSync(W)

\* the calls made so far, and the localStorage the first of them found
Started == {c \in DOMAIN calls : calls[c].pc # "idle"}
FoundFirst == calls[CHOOSE c \in Started : HasLegacyRecord(calls[c].found)].found

\* C21: when the handleDataMigration calls made on a pre-1.0 installation,
\* all with the wallet's PIN, overlap at their awaits: the legacy record is
\* never gone while no AccessData is persisted for the wallet's identity, no
\* call fails for want of the legacy keys (a call fails only where the
\* storage backend rejects), and once all the calls have returned normally
\* the state is the one a single migration leaves (AccessData persisted,
\* legacy keys removed, StorageVersion current, the handle the one of the
\* wallet's database).
C21_InterleavedMigrations ==
  ( Started # {} /\ \A c \in Started : calls[c].args[1] = RealPin(FoundFirst) )
  => LET legacy == JSONparse(FoundFirst[ACCESS_DATA_KEY]).o
         walletId == Str(<<"walletid", legacy.xpubkey>>)
         single == handleDataMigration(Pristine(FoundFirst), RealPin(FoundFirst),
                                       "throw")
     IN /\ ~HasLegacyRecord(ls) => Persisted(db, walletId) # Null
        /\ \A c \in DOMAIN calls :
             calls[c].pc = "failed"
             => calls[c].at \in {"saveAccessData", "registerToken"}
        /\ ( \A c \in DOMAIN calls : calls[c].pc = "done" )
           => /\ single.res = "ok"
              /\ W = single.w
              /\ Persisted(db, walletId).mainKey.data = legacy.mainKey
              /\ NoWalletKeyButId(ls)
              /\ ls[STORE_VERSION_KEY] = JSONstringify(Num(1))
              /\ _storage = [dbname |-> walletId]

\* all the calls were made before any of them had finished (each found the
\* legacy record), all with the wallet's PIN, and all have returned: the
\* record had its optional keys and the two tokens are registered
C21_Witness ==
  /\ \A c \in DOMAIN calls :
       /\ calls[c].pc = "done"
       /\ HasLegacyRecord(calls[c].found)
       /\ calls[c].args[1] = RealPin(calls[c].found)
       /\ calls[c].accessData.acctPathKey # Undefined
       /\ Len(calls[c].oldTokens) = 2
  /\ Cardinality(DOMAIN calls) = NumCalls
  /\ ~HasLegacyRecord(ls)
  /\ db[JSONparse(ls[WALLET_ID_KEY])].tokens = {1, 2}

====
